---------------------------- MODULE Spec2Model ----------------------------
(***************************************************************************)
(* A model of extract-code.py: extraction of fenced code blocks from       *)
(* markdown text, shebang insertion and heuristic comment stripping.       *)
(*                                                                         *)
(* A Python str is modelled as a sequence of one-character strings, so     *)
(* that the regular expressions and the character scans of the program     *)
(* are computed character by character.  Positions are 1-based; a search   *)
(* that finds nothing yields 0.                                            *)
(***************************************************************************)
EXTENDS Integers, Sequences, FiniteSets

(***************************************************************************)
(* Characters                                                              *)
(***************************************************************************)
NL == "\n"
\* the backquote character (a TLA+ string cannot hold one)
BQ == "BQ"
DQ == "\""
SQ == "'"
BS == "\\"

\* Python's None; '' is the empty sequence.  Both are falsy.
None == <<"None">>

Truthy(s) == s # None /\ s # <<>>

UpperChars == <<"A","B","C","D","E","F","G","H","I","J","K","L","M",
                "N","O","P","Q","R","S","T","U","V","W","X","Y","Z">>
LowerChars == <<"a","b","c","d","e","f","g","h","i","j","k","l","m",
                "n","o","p","q","r","s","t","u","v","w","x","y","z">>
DigitChars == <<"0","1","2","3","4","5","6","7","8","9">>

Range(f) == {f[i] : i \in DOMAIN f}

\* the regular expression class \w
IsWord(c) == c \in Range(UpperChars) \cup Range(LowerChars) \cup Range(DigitChars) \cup {"_"}

\* the regular expression class \s, and the characters str.strip() removes
IsSpace(c) == c \in {" ", "\t", "\n", "\r", "\f"}

\* str.lower() on one character
LowerChar(c) ==
    IF c \in Range(UpperChars)
    THEN LowerChars[CHOOSE i \in DOMAIN UpperChars : UpperChars[i] = c]
    ELSE c

\* str.lower()
lower(s) == [i \in DOMAIN s |-> LowerChar(s[i])]

(***************************************************************************)
(* str methods                                                             *)
(***************************************************************************)
\* s[i:] begins with p  (i is 1-based)
StartsWithAt(s, i, p) ==
    /\ i + Len(p) - 1 <= Len(s)
    /\ \A k \in 1..Len(p) : s[i + k - 1] = p[k]

\* s.startswith(p)
startswith(s, p) == StartsWithAt(s, 1, p)

RECURSIVE find(_, _, _)
\* s.find(p, i): the first position >= i where p occurs, 0 when there is none
find(s, p, i) ==
    IF i + Len(p) - 1 > Len(s) THEN 0
    ELSE IF StartsWithAt(s, i, p) THEN i
    ELSE find(s, p, i + 1)

\* p in s
Contains(s, p) == find(s, p, 1) # 0

RECURSIVE SkipSpace(_, _)
\* the first position >= i of s that holds no whitespace (Len(s)+1 when none)
SkipSpace(s, i) ==
    IF i > Len(s) \/ ~IsSpace(s[i]) THEN i ELSE SkipSpace(s, i + 1)

RECURSIVE SkipSpaceBack(_, _)
\* the last position <= i of s that holds no whitespace (0 when none)
SkipSpaceBack(s, i) ==
    IF i = 0 \/ ~IsSpace(s[i]) THEN i ELSE SkipSpaceBack(s, i - 1)

\* s.rstrip()
rstrip(s) == SubSeq(s, 1, SkipSpaceBack(s, Len(s)))

\* s.strip()
strip(s) == SubSeq(s, SkipSpace(s, 1), SkipSpaceBack(s, Len(s)))

RECURSIVE SplitFrom(_, _)
\* s.split('\n') of s[i:]
SplitFrom(s, i) ==
    LET k == find(s, <<NL>>, i)
    IN  IF k = 0 THEN <<SubSeq(s, i, Len(s))>>
        ELSE <<SubSeq(s, i, k - 1)>> \o SplitFrom(s, k + 1)

\* s.split('\n')
split(s) == SplitFrom(s, 1)

RECURSIVE join(_, _)
\* sep.join(parts)
join(sep, parts) ==
    IF parts = <<>> THEN <<>>
    ELSE IF Len(parts) = 1 THEN parts[1]
    ELSE parts[1] \o sep \o join(sep, Tail(parts))

(***************************************************************************)
(* String literals of the program                                          *)
(***************************************************************************)
FENCE == <<BQ, BQ, BQ>>
SHEBANG == <<"#", "!">>
L_python == <<"p","y","t","h","o","n">>
L_py == <<"p","y">>
L_bash == <<"b","a","s","h">>
L_sh == <<"s","h">>
L_shell == <<"s","h","e","l","l">>
L_javascript == <<"j","a","v","a","s","c","r","i","p","t">>
L_js == <<"j","s">>
L_node == <<"n","o","d","e">>
L_typescript == <<"t","y","p","e","s","c","r","i","p","t">>
L_ts == <<"t","s">>
L_ruby == <<"r","u","b","y">>
L_rb == <<"r","b">>
L_perl == <<"p","e","r","l">>
L_pl == <<"p","l">>
L_php == <<"p","h","p">>

K_import == <<"i","m","p","o","r","t"," ">>
K_def == <<"d","e","f"," ">>
K_class == <<"c","l","a","s","s"," ">>
K_function == <<"f","u","n","c","t","i","o","n"," ">>
K_const == <<"c","o","n","s","t"," ">>
K_let == <<"l","e","t"," ">>
K_echo == <<"e","c","h","o"," ">>
K_brackets == <<"[","[">>
K_if == <<"i","f"," ","[">>

ENV == <<"#","!","/","u","s","r","/","b","i","n","/","e","n","v"," ">>
SB_python_prefix == ENV \o L_python
SB_python == ENV \o L_python \o <<"3">>
SB_bash == <<"#","!","/","b","i","n","/","b","a","s","h">>
SB_sh == <<"#","!","/","b","i","n","/","s","h">>
SB_node == ENV \o L_node
SB_ruby == ENV \o L_ruby
SB_perl == ENV \o L_perl
SB_php == ENV \o L_php

(***************************************************************************)
(* ensure_shebang(code, language)                                          *)
(***************************************************************************)
\* lines[0] of code.split('\n')
FirstLine(s) ==
    LET k == find(s, <<NL>>, 1)
    IN  IF k = 0 THEN s ELSE SubSeq(s, 1, k - 1)

\* the keyword heuristics that run when no language is given
DetectShebangLanguage(code, language) ==
    IF Truthy(language) THEN language
    ELSE IF Contains(code, K_import) \/ Contains(code, K_def) \/ Contains(code, K_class)
         THEN L_python
    ELSE IF Contains(code, K_function) \/ Contains(code, K_const) \/ Contains(code, K_let)
         THEN L_javascript
    ELSE IF Contains(code, K_echo) \/ Contains(code, K_brackets) \/ Contains(code, K_if)
         THEN L_bash
    ELSE language

\* the shebang line of a language, None when the language has none
ShebangFor(language) ==
    IF language \in {L_python, L_py} THEN SB_python
    ELSE IF language \in {L_bash, L_sh, L_shell} THEN SB_bash
    ELSE IF language \in {L_javascript, L_js, L_node} THEN SB_node
    ELSE IF language \in {L_ruby, L_rb} THEN SB_ruby
    ELSE IF language \in {L_perl, L_pl} THEN SB_perl
    ELSE IF language \in {L_php} THEN SB_php
    ELSE None

HasShebang(code) == startswith(strip(FirstLine(code)), SHEBANG)

ensure_shebang(code, language) ==
    IF HasShebang(code) THEN code
    ELSE LET shebang == ShebangFor(DetectShebangLanguage(code, language))
         IN  IF shebang # None THEN shebang \o <<NL>> \o code ELSE code

(***************************************************************************)
(* re.findall(r'```(\w+)?\n(.*?)```', text, re.DOTALL)                     *)
(***************************************************************************)
RECURSIVE SkipWord(_, _)
\* the first position >= i of s that holds no \w character
SkipWord(s, i) ==
    IF i > Len(s) \/ ~IsWord(s[i]) THEN i ELSE SkipWord(s, i + 1)

\* no match of a pattern at a position
NoMatch == [end |-> 0, tag |-> <<>>, body |-> <<>>]

\* The match of the pattern that starts at position i, as
\* [tag, body, end] (end: the position after the match), or NoMatch.
\* (\w+)? is greedy and what follows it is a newline, which is no \w: only
\* the longest run of \w can be the tag.  (.*?) is lazy: the body ends at
\* the first fence at or after its start.
FenceMatchAt(text, i) ==
    IF ~StartsWithAt(text, i, FENCE) THEN NoMatch
    ELSE LET j == SkipWord(text, i + 3)
         IN  IF j > Len(text) \/ text[j] # NL THEN NoMatch
             ELSE LET k == find(text, FENCE, j + 1)
                  IN  IF k = 0 THEN NoMatch
                      ELSE [end |-> k + 3,
                            tag |-> SubSeq(text, i + 3, j - 1),
                            body |-> SubSeq(text, j + 1, k - 1)]

RECURSIVE FindAllFrom(_, _)
\* the non-overlapping matches found scanning from position i, left to right
FindAllFrom(text, i) ==
    IF i > Len(text) THEN <<>>
    ELSE LET m == FenceMatchAt(text, i)
         IN  IF m.end = 0 THEN FindAllFrom(text, i + 1)
             ELSE <<[tag |-> m.tag, body |-> m.body]>> \o FindAllFrom(text, m.end)

\* the (lang, code) pairs of re.findall; an absent tag is ''
findall(text) == FindAllFrom(text, 1)

(***************************************************************************)
(* extract_code_blocks(text, language)                                     *)
(***************************************************************************)
\* the list comprehension that keeps the blocks of the requested language
FilterMatches(matches, language) ==
    IF Truthy(language)
    THEN SelectSeq(matches, LAMBDA m : lower(m.tag) = lower(language))
    ELSE matches

\* the line written to sys.stderr
Diagnostic(language) ==
    <<"N","o"," ","c","o","d","e"," ","b","l","o","c","k","s"," ",
      "f","o","u","n","d"," ","f","o","r"," ",
      "l","a","n","g","u","a","g","e",":"," ">> \o language \o <<NL>>

\* x or y
Or(x, y) == IF Truthy(x) THEN x ELSE y

\* extract_code_blocks with matches[-1] in the place of matches[0]
extract_code_blocks_last(text, language) ==
    LET found == findall(text)
        matches == FilterMatches(found, language)
    IN  IF found = <<>> THEN [code |-> text, lang |-> language, err |-> <<>>]
        ELSE IF matches = <<>>
             THEN [code |-> <<>>, lang |-> language, err |-> <<Diagnostic(language)>>]
        ELSE [code |-> strip(matches[Len(matches)].body),
              lang |-> Or(matches[Len(matches)].tag, language),
              err |-> <<>>]

\* extract_code_blocks with text.strip() returned when nothing is found
extract_code_blocks_trimmed(text, language) ==
    LET found == findall(text)
        matches == FilterMatches(found, language)
    IN  IF found = <<>> THEN [code |-> strip(text), lang |-> language, err |-> <<>>]
        ELSE IF matches = <<>>
             THEN [code |-> <<>>, lang |-> language, err |-> <<Diagnostic(language)>>]
        ELSE [code |-> strip(matches[1].body),
              lang |-> Or(matches[1].tag, language),
              err |-> <<>>]

\* extract_code_blocks falling back on the first block of any language
\* when the filter matches none
extract_code_blocks_fallback(text, language) ==
    LET found == findall(text)
        matches == FilterMatches(found, language)
    IN  IF found = <<>> THEN [code |-> text, lang |-> language, err |-> <<>>]
        ELSE IF matches = <<>>
             THEN [code |-> strip(found[1].body), lang |-> language, err |-> <<>>]
        ELSE [code |-> strip(matches[1].body),
              lang |-> Or(matches[1].tag, language),
              err |-> <<>>]

\* [code, lang, err]: the returned pair and what is written to sys.stderr
extract_code_blocks(text, language) ==
    LET found == findall(text)
        matches == FilterMatches(found, language)
    IN  IF found = <<>> THEN [code |-> text, lang |-> language, err |-> <<>>]
        ELSE IF matches = <<>>
             THEN [code |-> <<>>, lang |-> language, err |-> <<Diagnostic(language)>>]
        ELSE [code |-> strip(matches[1].body),
              lang |-> Or(matches[1].tag, language),
              err |-> <<>>]

\* the --all branch with '\n'.join in the place of '\n\n'.join
extract_all_one_newline(text, language) ==
    LET matches == FilterMatches(findall(text), language)
    IN  [code |-> join(<<NL>>, [i \in DOMAIN matches |-> strip(matches[i].body)]),
         lang |-> language,
         err |-> <<>>]

\* the --all branch of main: every qualifying block, no diagnostic
extract_all(text, language) ==
    LET matches == FilterMatches(findall(text), language)
    IN  [code |-> join(<<NL, NL>>, [i \in DOMAIN matches |-> strip(matches[i].body)]),
         lang |-> language,
         err |-> <<>>]

(***************************************************************************)
(* strip_comments(code, language)                                          *)
(***************************************************************************)
\* the language guessed from the code when none is given
DetectStripLanguage(code, language) ==
    IF Truthy(language) THEN language
    ELSE IF \/ startswith(strip(code), SB_python_prefix)
            \/ Contains(code, K_import)
            \/ Contains(code, K_def)
         THEN L_python
    ELSE IF startswith(strip(code), SB_bash) \/ startswith(strip(code), SB_sh)
         THEN L_bash
    ELSE language

RECURSIVE ScanPyLine(_, _, _, _)
\* The character loop over a Python line from position j: the position of
\* the '#' at which the loop breaks, Len(line)+1 when it runs to the end.
ScanPyLine(line, j, in_string, quote_char) ==
    IF j > Len(line) THEN j
    ELSE LET char == line[j]
             toggles == char \in {DQ, SQ} /\ (j = 1 \/ line[j - 1] # BS)
             in2 == IF toggles /\ ~in_string THEN TRUE
                    ELSE IF toggles /\ char = quote_char THEN FALSE
                    ELSE in_string
             q2 == IF toggles /\ ~in_string THEN char ELSE quote_char
         IN  IF char = "#" /\ ~in2 THEN j
             ELSE ScanPyLine(line, j + 1, in2, q2)

\* one line of Python cut at its first '#', in a string or not
StripPyLine_unaware(line) ==
    IF Contains(line, <<"#">>)
    THEN rstrip(SubSeq(line, 1, find(line, <<"#">>, 1) - 1))
    ELSE line

\* one line of Python, its comment removed
StripPyLine(line) ==
    IF Contains(line, <<"#">>)
    THEN rstrip(SubSeq(line, 1, ScanPyLine(line, 1, FALSE, "") - 1))
    ELSE line

\* one line of shell, cut at its first '#'
StripShLine(line) ==
    IF Contains(line, <<"#">>)
    THEN rstrip(SubSeq(line, 1, find(line, <<"#">>, 1) - 1))
    ELSE line

\* the shebang test with i == 1 in the place of i == 0
KeepShebang_second_line(i, line) == i = 1 /\ startswith(strip(line), SHEBANG)

\* line i (0-based: the first line is 0) is kept when it is a shebang
KeepShebang(i, line) == i = 0 /\ startswith(strip(line), SHEBANG)

\* cleaned_lines of the python branch
CleanPyLines(lines) ==
    [i \in DOMAIN lines |->
        IF KeepShebang(i - 1, lines[i]) THEN lines[i] ELSE StripPyLine(lines[i])]

\* cleaned_lines of the bash branch
CleanShLines(lines) ==
    [i \in DOMAIN lines |->
        IF KeepShebang(i - 1, lines[i]) THEN lines[i] ELSE StripShLine(lines[i])]


(***************************************************************************)
(* re.sub(r'^\s*""".*?"""\s*$', '', code, re.MULTILINE | re.DOTALL)        *)
(* and the same pattern with three single quotes                           *)
(***************************************************************************)
TRIPLE_DQ == <<DQ, DQ, DQ>>
TRIPLE_SQ == <<SQ, SQ, SQ>>

\* ^ with re.MULTILINE: the start of the string or the position after a newline
AtLineStart(s, p) == p = 1 \/ s[p - 1] = NL

\* $ with re.MULTILINE: the end of the string or the position of a newline
AtLineEnd(s, p) == p = Len(s) + 1 \/ s[p] = NL

RECURSIVE LastLineEnd(_, _, _)
\* \s*$ from position a, where w is the end of the run of whitespace that
\* starts at a: the greatest position in a..w that is a line end (0: none).
\* \s* is greedy, so the greatest one is the one the match takes.
LastLineEnd(s, a, w) ==
    IF w < a THEN 0
    ELSE IF AtLineEnd(s, w) THEN w
    ELSE LastLineEnd(s, a, w - 1)

RECURSIVE DocCloseFrom(_, _, _)
\* .*?<quotes>\s*$ from position k: .*? is lazy, so the first closing quotes
\* at or after k that are followed by whitespace up to a line end are taken.
\* The position after the match, 0 when there is none.
DocCloseFrom(s, quotes, k) ==
    LET c == find(s, quotes, k)
    IN  IF c = 0 THEN 0
        ELSE LET e == LastLineEnd(s, c + 3, SkipSpace(s, c + 3))
             IN  IF e # 0 THEN e ELSE DocCloseFrom(s, quotes, c + 1)

\* The position after the match that starts at p, 0 when none starts there.
\* ^\s* is greedy and the quotes are no whitespace: the run is taken whole.
DocMatchEnd(s, quotes, p) ==
    IF ~AtLineStart(s, p) THEN 0
    ELSE LET q == SkipSpace(s, p)
         IN  IF StartsWithAt(s, q, quotes) THEN DocCloseFrom(s, quotes, q + 3) ELSE 0

RECURSIVE SubDocstringsFrom(_, _, _)
\* the substitution scanning from position p: matches are replaced by ''
SubDocstringsFrom(s, quotes, p) ==
    IF p > Len(s) THEN <<>>
    ELSE LET e == DocMatchEnd(s, quotes, p)
         IN  IF e = 0 THEN <<s[p]>> \o SubDocstringsFrom(s, quotes, p + 1)
             ELSE SubDocstringsFrom(s, quotes, e)

SubDocstrings(s, quotes) == SubDocstringsFrom(s, quotes, 1)

(***************************************************************************)
(* re.sub(r'//.*$', '', code, re.MULTILINE)                                *)
(* re.sub(r'/\*.*?\*/', '', code, re.DOTALL)                               *)
(***************************************************************************)
SLASHES == <<"/", "/">>
OPEN_COMMENT == <<"/", "*">>
CLOSE_COMMENT == <<"*", "/">>

\* the end of the line of position p: the position of its newline, or Len(s)+1
LineEnd(s, p) ==
    LET k == find(s, <<NL>>, p)
    IN  IF k = 0 THEN Len(s) + 1 ELSE k

RECURSIVE SubLineCommentsFrom(_, _)
SubLineCommentsFrom(s, p) ==
    IF p > Len(s) THEN <<>>
    ELSE IF StartsWithAt(s, p, SLASHES) THEN SubLineCommentsFrom(s, LineEnd(s, p))
    ELSE <<s[p]>> \o SubLineCommentsFrom(s, p + 1)

SubLineComments(s) == SubLineCommentsFrom(s, 1)

RECURSIVE SubBlockCommentsFrom(_, _)
SubBlockCommentsFrom(s, p) ==
    IF p > Len(s) THEN <<>>
    ELSE LET c == IF StartsWithAt(s, p, OPEN_COMMENT)
                  THEN find(s, CLOSE_COMMENT, p + 2) ELSE 0
         IN  IF c = 0 THEN <<s[p]>> \o SubBlockCommentsFrom(s, p + 1)
             ELSE SubBlockCommentsFrom(s, c + 2)

SubBlockComments(s) == SubBlockCommentsFrom(s, 1)

(***************************************************************************)
(* re.sub(r'\n\s*\n\s*\n+', '\n\n', code)                                  *)
(***************************************************************************)
RECURSIVE LastNewline(_, _, _)
\* the greatest position in a..b that holds a newline (0: none)
LastNewline(s, a, b) ==
    IF b < a THEN 0
    ELSE IF s[b] = NL THEN b
    ELSE LastNewline(s, a, b - 1)

\* the match of the pattern with lazy quantifiers, \n\s*?\n\s*?\n: it ends
\* after the third newline of the run
BlankRunEnd_lazy(s, p) ==
    IF s[p] # NL THEN 0
    ELSE LET w == SkipSpace(s, p)
             nls == {i \in p..(w - 1) : s[i] = NL}
         IN  IF Cardinality(nls) >= 3
             THEN (CHOOSE i \in nls : Cardinality({j \in nls : j < i}) = 2) + 1
             ELSE 0

\* The position after the match that starts at p, 0 when none starts there.
\* The match lies in the run of whitespace that starts at p, needs three
\* newlines in it, and (every quantifier being greedy) ends after the last.
BlankRunEnd(s, p) ==
    IF s[p] # NL THEN 0
    ELSE LET w == SkipSpace(s, p)
         IN  IF Cardinality({i \in p..(w - 1) : s[i] = NL}) >= 3
             THEN LastNewline(s, p, w - 1) + 1
             ELSE 0

RECURSIVE SubBlankRunsFrom(_, _)
SubBlankRunsFrom(s, p) ==
    IF p > Len(s) THEN <<>>
    ELSE LET e == BlankRunEnd(s, p)
         IN  IF e = 0 THEN <<s[p]>> \o SubBlankRunsFrom(s, p + 1)
             ELSE <<NL, NL>> \o SubBlankRunsFrom(s, e)

SubBlankRuns(s) == SubBlankRunsFrom(s, 1)

(***************************************************************************)
(* strip_comments, assembled                                               *)
(***************************************************************************)
\* the local cleaned_lines when the function returns (<<>>: never assigned)
strip_cleaned_lines(code, language) ==
    LET lang == DetectStripLanguage(code, language)
    IN  IF lang \in {L_python, L_py} THEN CleanPyLines(split(code))
        ELSE IF lang \in {L_bash, L_sh, L_shell} THEN CleanShLines(split(code))
        ELSE <<>>

\* code after the branch of its language
StripByLanguage(code, language) ==
    LET lang == DetectStripLanguage(code, language)
    IN  IF lang \in {L_python, L_py}
        THEN SubDocstrings(SubDocstrings(join(<<NL>>, CleanPyLines(split(code))),
                                         TRIPLE_DQ), TRIPLE_SQ)
        ELSE IF lang \in {L_bash, L_sh, L_shell}
        THEN join(<<NL>>, CleanShLines(split(code)))
        ELSE IF lang \in {L_javascript, L_js, L_typescript, L_ts}
        THEN SubBlockComments(SubLineComments(code))
        ELSE code

strip_comments(code, language) == SubBlankRuns(StripByLanguage(code, language))

(***************************************************************************)
(* Inputs                                                                  *)
(***************************************************************************)
\* the greatest number of segments (fenced blocks, stretches of other text)
\* an input text is made of
MaxSegments == 2

\* the greatest number of pieces a code handed to strip_comments is made of
MaxStripPieces == 5

T_Bash == <<"B","a","s","h">>

\* the tags of the fences of the input texts (<<>>: a fence without a tag)
Tags == {<<>>, L_python, T_Bash}

\* the values of --lang (None: the option is absent)
Filters == {None, L_python, L_bash}

\* the contents of the fenced blocks of the input texts
Bodies ==
    { <<"a", NL>>,
      <<" ", "b">>,
      <<"#", "!", "x", NL, "y", " ", "#", "c", NL>>,
      K_def \o <<"f", " ", "#", "c", NL>> }

\* a fenced block
Fenced(tag, body) == FENCE \o tag \o <<NL>> \o body \o FENCE

\* text outside the fenced blocks: plain text, a shebang line that is
\* indented, a fence that is never closed
Gaps ==
    { <<"t", NL>>,
      <<" ", "#", "!", "x", NL>>,
      FENCE \o L_python \o <<NL, "u">> }

Segments == Gaps \cup {Fenced(t, b) : t \in Tags, b \in Bodies}

RECURSIVE Concatenations(_, _)
\* the concatenations of at most n members of the set parts
Concatenations(parts, n) ==
    IF n = 0 THEN {<<>>}
    ELSE LET shorter == Concatenations(parts, n - 1)
         IN  shorter \cup {s \o p : s \in shorter, p \in parts}

Texts == Concatenations(Segments, MaxSegments)

L_rust == <<"r","u","s","t">>

\* the inputs of strip_comments: a language and the pieces its codes are made of
StripFamilies ==
    { [language |-> L_python,
       pieces |-> {<<"#">>, <<DQ>>, <<SQ>>, <<BS>>, <<"a">>, <<" ">>}],
      [language |-> L_python,
       pieces |-> {SHEBANG, <<"#">>, <<NL>>, TRIPLE_DQ, <<"a">>, <<" ">>}],
      [language |-> L_py,
       pieces |-> {SHEBANG, <<"#">>, <<NL>>, TRIPLE_SQ, <<DQ>>, <<NL, NL>>}],
      [language |-> L_bash,
       pieces |-> {SHEBANG, <<"#">>, <<NL>>, <<DQ>>, <<"a">>, <<" ">>}],
      [language |-> L_sh,
       pieces |-> {SHEBANG, <<"#", " ">>, <<NL, NL>>, <<NL>>, <<"a">>}],
      [language |-> L_shell,
       pieces |-> {SHEBANG, <<" ", NL>>, <<NL, NL>>, <<"#">>, <<"a">>}],
      [language |-> L_javascript,
       pieces |-> {SLASHES, OPEN_COMMENT, CLOSE_COMMENT, <<NL>>, <<"a">>, <<"/">>}],
      [language |-> L_javascript,
       pieces |-> {<<"/">>, <<"*">>, <<NL>>, <<NL, NL>>, <<"a">>}],
      [language |-> L_rust,
       pieces |-> {<<"a">>, <<NL>>, <<NL, NL>>, <<NL, NL, NL>>, <<" ">>}],
      [language |-> L_python,
       pieces |-> {<<"x", " ", "=", " ">>, <<DQ, "a">>, <<"#">>, <<"b", DQ>>}],
      [language |-> None,
       pieces |-> {<<"a">>, <<NL>>, <<NL, NL, NL>>, K_def, <<"#">>, SB_sh}] }

(***************************************************************************)
(* State                                                                   *)
(***************************************************************************)
VARIABLES
    text,                 \* the input, as read from the file or from stdin
    args_lang,            \* --lang
    args_all,             \* --all
    args_strip_comments,  \* --strip-comments
    pc,                   \* the statement of main (of the caller) to run next
    code,                 \* the local code
    detected_lang,        \* the local detected_lang
    extracted,            \* code as the extraction returned it
    strip_in,             \* the code handed to the last call of strip_comments
    cleaned_lines,        \* the local cleaned_lines of that call
    stderr,               \* the writes to sys.stderr
    stdout                \* what is written to sys.stdout

vars == <<text, args_lang, args_all, args_strip_comments, pc, code, detected_lang,
          extracted, strip_in, cleaned_lines, stderr, stdout>>

args == <<text, args_lang, args_all, args_strip_comments>>

(***************************************************************************)
(* main                                                                    *)
(***************************************************************************)
Init ==
    /\ text \in Texts
    /\ args_lang \in Filters
    /\ args_all \in BOOLEAN
    /\ args_strip_comments \in BOOLEAN
    /\ pc = "extract"
    /\ code = None
    /\ detected_lang = None
    /\ extracted = None
    /\ strip_in = None
    /\ cleaned_lines = <<>>
    /\ stderr = <<>>
    /\ stdout = <<>>

\* if args.all: ... else: code, detected_lang = extract_code_blocks(...)
Extract ==
    /\ pc = "extract"
    /\ LET r == IF args_all THEN extract_all(text, args_lang)
                ELSE extract_code_blocks(text, args_lang)
       IN  /\ code' = r.code
           /\ extracted' = r.code
           /\ detected_lang' = r.lang
           /\ stderr' = stderr \o r.err
    /\ pc' = "shebang"
    /\ UNCHANGED <<args, strip_in, cleaned_lines, stdout>>

\* code = ensure_shebang(code, detected_lang)
EnsureShebang ==
    /\ pc = "shebang"
    /\ code' = ensure_shebang(code, detected_lang)
    /\ pc' = "strip"
    /\ UNCHANGED <<args, detected_lang, extracted, strip_in, cleaned_lines, stderr, stdout>>

\* if args.strip_comments: code = strip_comments(code, detected_lang)
StripComments ==
    /\ pc = "strip"
    /\ args_strip_comments
    /\ code' = strip_comments(code, detected_lang)
    /\ strip_in' = code
    /\ cleaned_lines' = strip_cleaned_lines(code, detected_lang)
    /\ pc' = "print"
    /\ UNCHANGED <<args, detected_lang, extracted, stderr, stdout>>

\* print(code)
PrintCode ==
    /\ pc = "print" \/ (pc = "strip" /\ ~args_strip_comments)
    /\ stdout' = stdout \o code \o <<NL>>
    /\ pc' = "done"
    /\ UNCHANGED <<args, code, detected_lang, extracted, strip_in, cleaned_lines, stderr>>

Next == Extract \/ EnsureShebang \/ StripComments \/ PrintCode

Spec == Init /\ [][Next]_vars

(***************************************************************************)
(* strip_comments called on its own, twice in a row                        *)
(***************************************************************************)
InitStrip ==
    /\ text = <<>>
    /\ args_all = FALSE
    /\ args_strip_comments = TRUE
    /\ \E f \in StripFamilies :
          /\ args_lang = f.language
          /\ detected_lang = f.language
          /\ code \in Concatenations(f.pieces, MaxStripPieces)
    /\ pc = "strip"
    /\ extracted = code
    /\ strip_in = None
    /\ cleaned_lines = <<>>
    /\ stderr = <<>>
    /\ stdout = <<>>

\* code = strip_comments(code, language), on the input and then on its result
ApplyStrip ==
    /\ pc \in {"strip", "restrip"}
    /\ code' = strip_comments(code, detected_lang)
    /\ strip_in' = code
    /\ cleaned_lines' = strip_cleaned_lines(code, detected_lang)
    /\ pc' = IF pc = "strip" THEN "restrip" ELSE "done"
    /\ UNCHANGED <<args, detected_lang, extracted, stderr, stdout>>

NextStrip == ApplyStrip

SpecStrip == InitStrip /\ [][NextStrip]_vars

(***************************************************************************)
(* What the claims speak of, stated without the program's scans            *)
(***************************************************************************)
Min(S) == CHOOSE x \in S : \A y \in S : x <= y
Max(S) == CHOOSE x \in S : \A y \in S : x >= y

\* three backquotes stand at position i
RefFenceAt(t, i) == i + 2 <= Len(t) /\ t[i] = BQ /\ t[i + 1] = BQ /\ t[i + 2] = BQ

\* the newline that ends the opening fence at i: a tag word, if any, and then it
RefFenceNewlines(t, i) ==
    {j \in (i + 3)..Len(t) : t[j] = NL /\ \A m \in (i + 3)..(j - 1) : IsWord(t[m])}

\* the fences that can close a block whose opening fence ends at the newline j
RefClosers(t, j) == {k \in (j + 1)..Len(t) : RefFenceAt(t, k)}

\* a complete fenced block starts at position i
RefBlockAt(t, i) ==
    /\ RefFenceAt(t, i)
    /\ \E j \in RefFenceNewlines(t, i) : RefClosers(t, j) # {}

\* the text holds no complete fenced block
RefNoBlock(t) == \A i \in 1..Len(t) : ~RefBlockAt(t, i)

RECURSIVE RefBlocksFrom(_, _)
\* the fenced blocks of t from position p on, in text order: the next one
\* starts at the first position where a block starts and ends with the
\* first fence after its opening line
RefBlocksFrom(t, p) ==
    LET starts == {i \in p..Len(t) : RefBlockAt(t, i)}
    IN  IF starts = {} THEN <<>>
        ELSE LET i == Min(starts)
                 j == Min(RefFenceNewlines(t, i))
                 k == Min(RefClosers(t, j))
             IN  <<[tag |-> SubSeq(t, i + 3, j - 1), body |-> SubSeq(t, j + 1, k - 1)]>>
                 \o RefBlocksFrom(t, k + 3)

RefBlocks(t) == RefBlocksFrom(t, 1)

\* two characters are the same up to the case of a letter
RefSameChar(c, d) ==
    \/ c = d
    \/ \E k \in DOMAIN UpperChars : {c, d} = {UpperChars[k], LowerChars[k]}

\* two words are equal case-insensitively
RefSameWord(a, b) ==
    Len(a) = Len(b) /\ \A i \in DOMAIN a : RefSameChar(a[i], b[i])

\* the blocks that qualify: all of them without a filter, else those of its tag
RefQualifying(t, filter) ==
    IF filter = None THEN RefBlocks(t)
    ELSE SelectSeq(RefBlocks(t), LAMBDA b : RefSameWord(b.tag, filter))

\* s without its leading and trailing whitespace
RefTrim(s) ==
    LET solid == {i \in DOMAIN s : ~IsSpace(s[i])}
    IN  IF solid = {} THEN <<>> ELSE SubSeq(s, Min(solid), Max(solid))

RECURSIVE RefJoinBlank(_)
\* the parts, one blank line between each two
RefJoinBlank(parts) ==
    IF Len(parts) = 0 THEN <<>>
    ELSE IF Len(parts) = 1 THEN parts[1]
    ELSE RefJoinBlank(SubSeq(parts, 1, Len(parts) - 1)) \o <<NL, NL>> \o parts[Len(parts)]

\* the text before the first newline
RefFirstLine(s) ==
    LET nls == {i \in DOMAIN s : s[i] = NL}
    IN  IF nls = {} THEN s ELSE SubSeq(s, 1, Min(nls) - 1)

\* extract_code_blocks has returned
ExtractedSingle == pc = "shebang" /\ ~args_all
\* the --all branch has run
ExtractedAll == pc = "shebang" /\ args_all

(***************************************************************************)
(* Extraction                                                              *)
(***************************************************************************)
\* C1: in single mode, when a block qualifies, the returned code is the
\* trimmed content of the first qualifying block and the returned language
\* is its tag, or the filter when it has no tag; a text of one block tagged
\* python with content C gives (C trimmed, python).
C1_FirstQualifyingBlock ==
    ExtractedSingle =>
        /\ LET q == RefQualifying(text, args_lang)
           IN  q # <<>> =>
                 /\ extracted = RefTrim(q[1].body)
                 /\ detected_lang = IF q[1].tag # <<>> THEN q[1].tag ELSE args_lang
        /\ \A b \in Bodies :
              \A before \in {<<>>, <<"t", NL>>} :
                 \A after \in {<<>>, <<"t", NL>>, <<" ", "#", "!", "x", NL>>} :
                    (text = before \o Fenced(L_python, b) \o after /\ args_lang = None) =>
                        extracted = RefTrim(b) /\ detected_lang = L_python

\* C1 happens: the first block does not qualify, the second one does
C1_Witness ==
    /\ ExtractedSingle
    /\ args_lang = L_bash
    /\ text = Fenced(L_python, <<"a", NL>>) \o Fenced(T_Bash, <<" ", "b">>)
    /\ extracted = <<"b">>
    /\ detected_lang = T_Bash

\* C2: without a filter, a text that holds no complete fenced block (an
\* opening fence that is never closed included) is returned as it is,
\* untrimmed, and nothing is written to the error stream.
C2_PassThrough ==
    (ExtractedSingle /\ args_lang = None /\ RefNoBlock(text)) =>
        extracted = text /\ stderr = <<>>

\* C2 happens: a text that starts with a blank and holds an unclosed fence
C2_Witness ==
    /\ ExtractedSingle
    /\ args_lang = None
    /\ text = <<" ", "#", "!", "x", NL>> \o FENCE \o L_python \o <<NL, "u">>
    /\ extracted = text
    /\ stderr = <<>>

\* no block of the text has the filter's tag
RefNoneQualifies(t, filter) == RefQualifying(t, filter) = <<>>

\* C3 as claimed: with a filter that no block matches (no block at all
\* included), the code returned is empty and a diagnostic is written.
C3_Original ==
    (ExtractedSingle /\ args_lang # None /\ RefNoneQualifies(text, args_lang)) =>
        extracted = <<>> /\ Len(stderr) = 1

\* C3 as amended: with a filter, a text that holds fenced blocks none of
\* which has the filter's tag gives empty code and one diagnostic, which
\* names the filter; a text without any fenced block is returned unchanged
\* and nothing is written.
C3_Amended ==
    (ExtractedSingle /\ args_lang # None /\ RefNoneQualifies(text, args_lang)) =>
        IF RefNoBlock(text)
        THEN extracted = text /\ stderr = <<>>
        ELSE /\ extracted = <<>>
             /\ Len(stderr) = 1
             /\ \E k \in DOMAIN stderr[1] : SubSeq(stderr[1], k, Len(stderr[1])) = args_lang \o <<NL>>

\* C3 happens: the filter is bash, the only block is tagged python
C3_Witness ==
    /\ ExtractedSingle
    /\ args_lang = L_bash
    /\ text = Fenced(L_python, <<"a", NL>>)
    /\ extracted = <<>>
    /\ Len(stderr) = 1

\* C4: end to end, in both modes, a filter that no block matches gives one
\* diagnostic line on the error stream and the empty string, followed by
\* the newline of print, on the output.
C4_EmptyOutput ==
    (pc = "done" /\ args_lang # None /\ RefNoneQualifies(text, args_lang)) =>
        Len(stderr) = 1 /\ stdout = <<NL>>

\* C5: with --all the extracted code is the trimmed contents of all the
\* qualifying blocks in text order, one blank line between each two; blocks
\* a and b give a, blank line, b; no qualifying block gives the empty string.
C5_AllJoined ==
    ExtractedAll =>
        /\ LET q == RefQualifying(text, args_lang)
           IN  extracted = RefJoinBlank([i \in DOMAIN q |-> RefTrim(q[i].body)])
        /\ \A t1 \in Tags, t2 \in Tags :
              (text = Fenced(t1, <<"a", NL>>) \o Fenced(t2, <<" ", "b">>) /\ args_lang = None) =>
                  extracted = <<"a", NL, NL, "b">>
        /\ RefNoneQualifies(text, args_lang) => extracted = <<>>

\* C5 happens: two blocks with different tags, contents a and b
C5_Witness ==
    /\ ExtractedAll
    /\ args_lang = None
    /\ text = Fenced(L_python, <<"a", NL>>) \o Fenced(<<>>, <<" ", "b">>)
    /\ extracted = <<"a", NL, NL, "b">>

\* the languages ensure_shebang has a shebang for
RefShebangLanguages ==
    {L_python, L_py, L_bash, L_sh, L_shell, L_javascript, L_js, L_node,
     L_ruby, L_rb, L_perl, L_pl, L_php}

\* the language ensure_shebang works with: the one it is given (the tag or
\* the filter), else the one the keywords of the code give
RefShebangLanguage == DetectShebangLanguage(extracted, detected_lang)

\* C10: when the language ensure_shebang works with is one it has a shebang
\* for, the first line printed starts with #!, with and without
\* --strip-comments; when there is no language and the first line is no
\* shebang, ensure_shebang returns the code as it is.
C10_ShebangFirst ==
    /\ (pc = "done" /\ RefShebangLanguage \in RefShebangLanguages) =>
          /\ Len(stdout) >= 2
          /\ stdout[1] = "#"
          /\ stdout[2] = "!"
    /\ (pc = "strip" /\ ~Truthy(RefShebangLanguage)
           /\ ~(Len(extracted) >= 2 /\ extracted[1] = "#" /\ extracted[2] = "!")) =>
          code = extracted

(***************************************************************************)
(* Comment stripping                                                       *)
(***************************************************************************)
\* strip_comments has returned (from its last call)
Stripped == pc \in {"restrip", "done"}

\* C6: strip_comments is idempotent for python, bash and javascript: its
\* second application, to the result of the first, changes nothing.
C6_Idempotent ==
    (pc = "done" /\ detected_lang \in {L_python, L_bash, L_javascript}) =>
        code = strip_in

\* C6 happens: the first application has removed a comment, a docstring or
\* a blank line of a python code, and the second one has run
C6_Witness ==
    /\ pc = "done"
    /\ detected_lang = L_python
    /\ extracted = TRIPLE_DQ \o TRIPLE_DQ \o <<NL, "#">>
    /\ strip_in # extracted
    /\ code = strip_in

RECURSIVE RefOpenQuote(_, _)
\* The quote character of the string that is open after the first j
\* characters of the line, "" when none is: a quote that no backslash
\* precedes opens a string, and the same quote closes it.
RefOpenQuote(line, j) ==
    IF j = 0 THEN ""
    ELSE LET before == RefOpenQuote(line, j - 1)
             c == line[j]
             free == c \in {DQ, SQ} /\ (j = 1 \/ line[j - 1] # BS)
         IN  IF ~free THEN before
             ELSE IF before = "" THEN c
             ELSE IF before = c THEN ""
             ELSE before

\* the positions of the '#' of a line that stand outside the strings
RefHashesOutside(line) ==
    {j \in DOMAIN line : line[j] = "#" /\ RefOpenQuote(line, j) = ""}

\* s without its trailing whitespace
RefTrimRight(s) ==
    LET solid == {i \in DOMAIN s : ~IsSpace(s[i])}
    IN  IF solid = {} THEN <<>> ELSE SubSeq(s, 1, Max(solid))

\* the line  x = "a#b"
X_EQ_STRING == <<"x", " ", "=", " ", DQ, "a", "#", "b", DQ>>

\* C7: python, each line but a shebang on the first line: the line is cut at
\* its first '#' outside the strings of the quote toggle (what is left loses
\* its trailing whitespace) and never at a '#' inside a string; a line whose
\* every '#' is inside a string keeps all its content but trailing
\* whitespace; x = "a#b" is returned unchanged.
C7_HashOutsideStrings ==
    (Stripped /\ detected_lang \in {L_python, L_py}) =>
        /\ Len(cleaned_lines) = Len(split(strip_in))
        /\ \A i \in DOMAIN cleaned_lines :
              LET line == split(strip_in)[i]
                  cuts == RefHashesOutside(line)
              IN  ~(i = 1 /\ startswith(RefTrim(line), SHEBANG)) =>
                     IF cuts = {}
                     THEN cleaned_lines[i] \in {line, RefTrimRight(line)}
                     ELSE cleaned_lines[i] = RefTrimRight(SubSeq(line, 1, Min(cuts) - 1))
        /\ strip_in = X_EQ_STRING => code = X_EQ_STRING

\* C7 happens: a line with a '#' inside a string and a comment after it
C7_Witness ==
    /\ pc = "restrip"
    /\ detected_lang = L_python
    /\ strip_in = <<DQ, "#", DQ, "#">>
    /\ cleaned_lines = << <<DQ, "#", DQ>> >>
    /\ code = <<DQ, "#", DQ>>

\* C8: python, py, bash, sh, shell: a first line that starts with #! is the
\* first line of the result, character for character.
C8_ShebangKept ==
    (Stripped /\ detected_lang \in {L_python, L_py, L_bash, L_sh, L_shell}
              /\ Len(strip_in) >= 2 /\ strip_in[1] = "#" /\ strip_in[2] = "!") =>
        RefFirstLine(code) = RefFirstLine(strip_in)

\* C8 happens: a shebang line that holds a further '#' and ends with a
\* blank, before a comment line that is removed
C8_Witness ==
    /\ pc = "restrip"
    /\ detected_lang = L_shell
    /\ strip_in = <<"#", "!", "#", " ", NL, "#">>
    /\ code = <<"#", "!", "#", " ", NL>>

\* a line of whitespace only
RefBlankLine(l) == \A i \in DOMAIN l : IsSpace(l[i])

RECURSIVE RefSolidFrom(_, _)
\* the indices, from i on and in order, of the lines that are not blank
RefSolidFrom(lines, i) ==
    IF i > Len(lines) THEN <<>>
    ELSE (IF RefBlankLine(lines[i]) THEN <<>> ELSE <<i>>) \o RefSolidFrom(lines, i + 1)

\* the lines that are not blank, in order
RefSolidLines(lines) == SelectSeq(lines, LAMBDA l : ~RefBlankLine(l))

\* the lengths of the runs of blank lines between two lines that are not blank
RefBlankRuns(lines) ==
    LET ix == RefSolidFrom(lines, 1)
    IN  [k \in 1..(Len(ix) - 1) |-> ix[k + 1] - ix[k] - 1]

\* C9: the final collapse, for every language: a run of more than two blank
\* lines (between two lines that are not blank) becomes one blank line, and
\* a run of at most two blank lines is left as it is.
C9_BlankRuns ==
    pc = "restrip" =>
        LET before == split(StripByLanguage(strip_in, detected_lang))
            after == split(code)
            runs == RefBlankRuns(before)
        IN  /\ RefSolidLines(after) = RefSolidLines(before)
            /\ RefBlankRuns(after) = [k \in DOMAIN runs |-> IF runs[k] > 2 THEN 1 ELSE runs[k]]

=============================================================================
